---- MODULE Spec2Model ----
(***************************************************************************)
(* sdat2img: TransferList::parse followed by the replay in main.           *)
(*                                                                         *)
(* Text is modelled at character level: a string is a sequence of          *)
(* one-character strings, so split() and operator>> are computed as the    *)
(* code computes them.  A 4096-byte block is described by [fill, len]:     *)
(* its first len bytes have value fill, the remaining bytes are 0.         *)
(***************************************************************************)
EXTENDS Integers, Sequences, FiniteSets, TLC

(***************************************************************************)
(* Bounds                                                                  *)
(***************************************************************************)
\* Width of FileSizeT (size_t) in the model.  The arithmetic of the code is
\* kept (every FileSizeT result is reduced modulo 2^SizeBits); the width is
\* scaled down from the ABI's 32 or 64 bits so that values stay small.
SizeBits == 16
\* Largest number of command lines in a transfer list.
MaxLines == 2
\* Largest number of lines after the version line in the files that vary
\* the header.
MaxRest == 4
\* Largest number of comma-separated tokens of a range-spec in the files
\* that vary the tokens.
MaxToks == 5
\* Largest number of chunks of the data stream.
MaxDat == 2
\* Largest number of blocks of an original image.
MaxImg == 3

BLOCK_SIZE == 4096

RECURSIVE Pow2(_)
Pow2(n) == IF n = 0 THEN 1 ELSE 2 * Pow2(n - 1)

\* FileSizeT values are 0 .. SizeMod-1.
SizeMod == Pow2(SizeBits)
\* Largest file offset (off_t is signed and as wide as FileSizeT).
OffMax == Pow2(SizeBits - 1) - 1
\* int (TransferList::version) is 32 bits wide.
IntMax == 2147483647

(***************************************************************************)
(* Characters and strings                                                  *)
(***************************************************************************)
Digits == <<"0", "1", "2", "3", "4", "5", "6", "7", "8", "9">>

IsDigit(c) == \E d \in 1..10 : Digits[d] = c

DigitVal(c) == (CHOOSE d \in 1..10 : Digits[d] = c) - 1

\* std::getline(ss, token, delimiter) applied until it fails: every
\* delimiter ends a token, and a final token is produced only when
\* characters remain after the last delimiter.
RECURSIVE splitFrom(_, _, _, _)
splitFrom(str, delimiter, i, token) ==
    IF i > Len(str)
    THEN IF token = <<>> THEN <<>> ELSE <<token>>
    ELSE IF str[i] = delimiter
         THEN <<token>> \o splitFrom(str, delimiter, i + 1, <<>>)
         ELSE splitFrom(str, delimiter, i + 1, Append(token, str[i]))

split(str, delimiter) == splitFrom(str, delimiter, 1, <<>>)

\* Number of leading whitespace characters skipped by operator>>.
RECURSIVE SkipWs(_, _)
SkipWs(s, i) == IF i <= Len(s) /\ s[i] = " " THEN SkipWs(s, i + 1) ELSE i

\* Accumulates the longest run of digits of s from position i.
\* acc is the magnitude so far, n the number of digits taken, over whether
\* the magnitude went past limit.
RECURSIVE AccDigits(_, _, _, _, _, _)
AccDigits(s, i, acc, n, over, limit) ==
    IF i > Len(s) \/ ~IsDigit(s[i])
    THEN [mag |-> acc, ndigits |-> n, over |-> over]
    ELSE LET d == DigitVal(s[i])
             fits == ~over /\ acc <= (limit - d) \div 10
         IN AccDigits(s, i + 1, IF fits THEN acc * 10 + d ELSE acc, n + 1,
                      ~fits, limit)

HasSign(s, i) == i <= Len(s) /\ s[i] \in {"-", "+"}

\* `ss >> num` with FileSizeT num: leading whitespace is skipped, an
\* optional sign and the longest run of digits are consumed, trailing
\* characters are left in the stream.  A leading '-' negates the magnitude
\* in unsigned arithmetic.  The extraction fails when there is no digit or
\* the magnitude does not fit.
ExtractSizeT(s) ==
    LET i0 == SkipWs(s, 1)
        i1 == IF HasSign(s, i0) THEN i0 + 1 ELSE i0
        neg == HasSign(s, i0) /\ s[i0] = "-"
        r == AccDigits(s, i1, 0, 0, FALSE, SizeMod - 1)
    IN IF r.ndigits = 0 \/ r.over
       THEN [ok |-> FALSE, val |-> 0]
       ELSE [ok |-> TRUE,
             val |-> IF neg THEN (SizeMod - r.mag) % SizeMod ELSE r.mag]

\* `stream >> *out` with int *out (the version line).
ExtractInt(s) ==
    LET i0 == SkipWs(s, 1)
        i1 == IF HasSign(s, i0) THEN i0 + 1 ELSE i0
        neg == HasSign(s, i0) /\ s[i0] = "-"
        r == AccDigits(s, i1, 0, 0, FALSE, IntMax)
    IN IF r.ndigits = 0 \/ r.over
       THEN [ok |-> FALSE, val |-> IF r.ndigits = 0 THEN 0 ELSE IntMax]
       ELSE [ok |-> TRUE, val |-> IF neg THEN 0 - r.mag ELSE r.mag]

(***************************************************************************)
(* parseRanges and the operations collection                               *)
(***************************************************************************)
Erase == "erase"
New == "new"
Zero == "zero"

\* enum class Command { Erase, New, Zero }: the key order of the multimap.
CommandOrd(c) == CASE c = Erase -> 0 [] c = New -> 1 [] c = Zero -> 2

S_erase == <<"e", "r", "a", "s", "e">>
S_new == <<"n", "e", "w">>
S_zero == <<"z", "e", "r", "o">>

\* TransferList::toOperations; "invalid" stands for std::invalid_argument.
toOperations(command) ==
    IF command = S_erase THEN Erase
    ELSE IF command = S_new THEN New
    ELSE IF command = S_zero THEN Zero
    ELSE "invalid"

\* The lambda of std::transform in parseRanges: every token through
\* `ss >> num`.
Transformed(src_set) == [i \in 1..Len(src_set) |-> ExtractSizeT(src_set[i])]

\* parseRanges with the size test taken as "at least N values".
parseRanges_AtLeast(src) ==
    LET src_set == split(src, ",")
        conv == Transformed(src_set)
        ret == [i \in 1..Len(src_set) |-> conv[i].val]
    IN IF \E i \in 1..Len(src_set) : ~conv[i].ok
       THEN [kind |-> "throw", nums |-> <<>>]
       ELSE IF Len(ret) = 0
       THEN [kind |-> "ub", nums |-> <<>>]
       ELSE IF Len(ret) < (ret[1] + 1) % SizeMod
       THEN [kind |-> "ok", nums |-> <<>>]
       ELSE IF (Len(ret) - 1) % 2 # 0
       THEN [kind |-> "ok", nums |-> <<>>]
       ELSE [kind |-> "ok", nums |-> Tail(ret)]

\* parseRanges.  kind = "throw": a token failed to convert
\* (std::invalid_argument); kind = "ub": src has no token, so ret is empty
\* and ret[0] reads past the end of an empty vector; kind = "ok": the
\* returned vector (empty after a failed size or parity test).
parseRanges(src) ==
    LET src_set == split(src, ",")
        conv == Transformed(src_set)
        ret == [i \in 1..Len(src_set) |-> conv[i].val]
    IN IF \E i \in 1..Len(src_set) : ~conv[i].ok
       THEN [kind |-> "throw", nums |-> <<>>]
       ELSE IF Len(ret) = 0
       THEN [kind |-> "ub", nums |-> <<>>]
       ELSE IF Len(ret) # (ret[1] + 1) % SizeMod
       THEN [kind |-> "ok", nums |-> <<>>]
       ELSE IF (Len(ret) - 1) % 2 # 0
       THEN [kind |-> "ok", nums |-> <<>>]
       ELSE [kind |-> "ok", nums |-> Tail(ret)]

\* TransferList::ByteSegments(begin, end), tagged with its multimap key.
ByteSegments(command, begin, end) ==
    [cmd |-> command, begin |-> begin, end |-> end]

\* std::multimap::emplace: the collection is ordered by key and a new
\* element goes after every element whose key is not greater (the upper
\* bound of the equal range).
UpperBound(cmds, command) ==
    Cardinality({i \in 1..Len(cmds) :
                    CommandOrd(cmds[i].cmd) <= CommandOrd(command)})

emplace(cmds, seg) ==
    LET k == UpperBound(cmds, seg.cmd)
    IN SubSeq(cmds, 1, k) \o <<seg>> \o SubSeq(cmds, k + 1, Len(cmds))

\* The for loop of TransferList::parse over nums, two values at a time.
RECURSIVE EmplaceAll(_, _, _, _)
EmplaceAll(cmds, command, nums, i) ==
    IF i > Len(nums) THEN cmds
    ELSE EmplaceAll(emplace(cmds, ByteSegments(command, nums[i], nums[i + 1])),
                    command, nums, i + 2)

\* TransferList::max: the largest end() of the collection (not empty).
RECURSIVE MaxEnd(_, _)
MaxEnd(cmds, i) ==
    IF i = Len(cmds) THEN cmds[i].end
    ELSE LET rest == MaxEnd(cmds, i + 1)
         IN IF cmds[i].end < rest THEN rest ELSE cmds[i].end

max(cmds) == MaxEnd(cmds, 1)

(***************************************************************************)
(* Blocks, the data stream and the output file                             *)
(***************************************************************************)
\* std::array<char, BLOCK_SIZE> buffer{}: every byte 0.
ZeroBlock == [fill |-> 0, len |-> 0]

\* The bytes of a block: equal descriptors for equal bytes.
Canon(b) == IF b.fill = 0 \/ b.len = 0 THEN ZeroBlock ELSE b

\* Byte k (0-based) of a block.
ByteAt(b, k) == IF k < b.len THEN b.fill ELSE 0

\* ReadBlock with the buffer declared outside the loop: a read that gets
\* nothing leaves the bytes of the block read before.
ReadBlock_Stale(dat, in_pos, in_fail) ==
    LET stale == IF in_pos > 0 THEN Canon(dat[in_pos]) ELSE ZeroBlock
    IN IF in_fail
       THEN [buffer |-> stale, in_pos |-> in_pos, in_fail |-> TRUE]
       ELSE IF in_pos < Len(dat)
       THEN [buffer |-> Canon(dat[in_pos + 1]), in_pos |-> in_pos + 1,
             in_fail |-> dat[in_pos + 1].len < BLOCK_SIZE]
       ELSE [buffer |-> stale, in_pos |-> in_pos, in_fail |-> TRUE]

\* in.read(buffer.data(), BLOCK_SIZE) into a fresh buffer.  The stream dat
\* is a sequence of chunks of BLOCK_SIZE bytes, the last one possibly
\* shorter.  A stream whose failbit is set reads nothing; a read that gets
\* fewer than BLOCK_SIZE bytes sets eofbit and failbit.
ReadBlock(dat, in_pos, in_fail) ==
    IF in_fail
    THEN [buffer |-> ZeroBlock, in_pos |-> in_pos, in_fail |-> TRUE]
    ELSE IF in_pos < Len(dat)
    THEN [buffer |-> Canon(dat[in_pos + 1]), in_pos |-> in_pos + 1,
          in_fail |-> dat[in_pos + 1].len < BLOCK_SIZE]
    ELSE [buffer |-> ZeroBlock, in_pos |-> in_pos, in_fail |-> TRUE]

\* The file after BLOCK_SIZE bytes are stored at block index idx; a hole
\* left by a seek past the end reads as zeros.
StoreBlock(out, idx, b) ==
    [i \in 1..(IF idx + 1 > Len(out) THEN idx + 1 ELSE Len(out)) |->
        IF i = idx + 1 THEN b
        ELSE IF i <= Len(out) THEN out[i] ELSE ZeroBlock]

\* out.write(buffer.data(), BLOCK_SIZE): nothing happens on a failed
\* stream; a block that does not fit below the largest file offset is not
\* stored and the stream goes bad.
WriteBlock(out, out_pos, out_fail, buffer) ==
    IF out_fail
    THEN [out |-> out, out_pos |-> out_pos, out_fail |-> TRUE]
    ELSE IF out_pos + BLOCK_SIZE - 1 > OffMax
    THEN [out |-> out, out_pos |-> out_pos, out_fail |-> TRUE]
    ELSE [out |-> StoreBlock(out, out_pos \div BLOCK_SIZE, buffer),
          out_pos |-> out_pos + BLOCK_SIZE, out_fail |-> FALSE]

\* SeekP left out: the blocks go wherever the put position is.
SeekP_Missing(st, begin) == st

\* out.seekp(_begin * BLOCK_SIZE, std::ios::beg): the product is FileSizeT
\* arithmetic, then converted to the signed offset type.  A failed stream
\* does not seek; a negative offset sets failbit.
SeekP(st, begin) ==
    LET off == (begin * BLOCK_SIZE) % SizeMod
    IN IF st.out_fail THEN st
       ELSE IF off > OffMax THEN [st EXCEPT !.out_fail = TRUE]
       ELSE [st EXCEPT !.out_pos = off]

\* The while loop of writeToFile.  Once both streams have failed an
\* iteration changes nothing but block_count, so the rest of the loop is
\* skipped.
RECURSIVE CopyLoop(_, _, _)
CopyLoop(dat, block_count, st) ==
    IF block_count = 0 \/ (st.in_fail /\ st.out_fail) THEN st
    ELSE LET r == ReadBlock(dat, st.in_pos, st.in_fail)
             w == WriteBlock(st.out, st.out_pos, st.out_fail, r.buffer)
         IN CopyLoop(dat, block_count - 1,
                     [in_pos |-> r.in_pos, in_fail |-> r.in_fail,
                      out |-> w.out, out_pos |-> w.out_pos,
                      out_fail |-> w.out_fail])

\* ByteSegments::size and the block_count of writeToFile: _end - _begin in
\* FileSizeT arithmetic.
size(seg) == (seg.end + SizeMod - seg.begin) % SizeMod

\* ByteSegments::writeToFile.
writeToFile(seg, dat, st) == CopyLoop(dat, size(seg), SeekP(st, seg.begin))

\* std::filesystem::resize_file: the file is cut or padded with zeros.
resize_file(out, new_size) ==
    [i \in 1..(new_size \div BLOCK_SIZE) |->
        IF i <= Len(out) THEN out[i] ELSE ZeroBlock]

(***************************************************************************)
(* Inputs: transfer lists (as lines of text) and data streams              *)
(***************************************************************************)
SeqsUpTo(S, lo, hi) == UNION {[1..k -> S] : k \in lo..hi}

\* Decimal text of a natural number.
RECURSIVE Dec(_)
Dec(n) == IF n < 10 THEN <<Digits[n + 1]>>
          ELSE Dec(n \div 10) \o <<Digits[(n % 10) + 1]>>

RECURSIVE Join(_, _)
Join(toks, sep) ==
    IF Len(toks) = 0 THEN <<>>
    ELSE IF Len(toks) = 1 THEN toks[1]
    ELSE toks[1] \o <<sep>> \o Join(Tail(toks), sep)

\* "<command-word> <range-spec>".
CmdLine(word, toks) == word \o <<" ">> \o Join(toks, ",")

\* A command line whose range-spec is N,v1,...,vN for the values vals.
RangeLine(word, vals) ==
    CmdLine(word, <<Dec(Len(vals))>> \o [i \in 1..Len(vals) |-> Dec(vals[i])])

HeaderLine == Dec(0)

\* First block number whose byte offset no longer fits FileSizeT, and
\* first block number whose byte offset no longer fits the file offset.
WrapBlock == SizeMod \div BLOCK_SIZE
OffBlock == (OffMax + 1) \div BLOCK_SIZE

NewVals ==
    {<<0, 1>>, <<0, 2>>, <<2, 3>>, <<1, 3>>, <<3, 1>>, <<2, 3, 0, 1>>,
     <<WrapBlock, WrapBlock + 1>>, <<OffBlock, OffBlock + 1>>}

EraseVals == {<<0, 3>>, <<0, WrapBlock>>, <<0, OffBlock>>}

ZeroVals == {<<0, 1>>, <<3, 1>>}

ReplayLines ==
    {RangeLine(S_new, v) : v \in NewVals}
    \cup {RangeLine(S_erase, v) : v \in EraseVals}
    \cup {RangeLine(S_zero, v) : v \in ZeroVals}

Header4 == <<Dec(4), HeaderLine, HeaderLine, HeaderLine>>

\* Version 4 files with well-formed command lines.
ReplayFiles == {Header4 \o ls : ls \in SeqsUpTo(ReplayLines, 1, MaxLines)}

NumVals == {1, 2, 4}
NumToks == {Dec(v) : v \in NumVals}
T_minus1 == <<"-", "1">>
T_1x == <<"1", "x">>
T_x == <<"x">>
MixToks == {Dec(2), Dec(0), T_minus1, T_1x, T_x, <<>>}

\* Version 4 files with one "new" line whose range-spec varies.
TokFiles ==
    {Header4 \o <<CmdLine(S_new, toks)>> :
        toks \in SeqsUpTo(NumToks, 1, MaxToks) \cup SeqsUpTo(MixToks, 1, 3)}

GoodLine == RangeLine(S_new, <<0, 1>>)

SpecialLines ==
    {<<>>, S_new, S_new \o <<" ">>, S_new \o <<" ", " ">>,
     GoodLine \o <<" ">>, GoodLine \o <<" ", "x">>,
     RangeLine(<<"N", "e", "w">>, <<0, 1>>),
     RangeLine(<<"m", "o", "v", "e">>, <<0, 1>>),
     CmdLine(<<"m", "o", "v", "e">>, <<Dec(1), Dec(0)>>)}

\* Version 4 files whose last line is not "<command-word> <range-spec>".
SpecialFiles ==
    {Header4 \o pre \o <<l>> :
        pre \in {<<>>, <<GoodLine>>}, l \in SpecialLines}

VersionLines ==
    {Dec(v) : v \in 0..5}
    \cup {<<>>, T_x, T_minus1, <<"4", "x">>, <<" ", "2">>, Dec(IntMax) \o <<"0">>}

\* Files that vary the version line and the number of lines after it.
HeadFiles ==
    {<<v>> \o rest :
        v \in VersionLines,
        rest \in SeqsUpTo({HeaderLine, GoodLine}, 0, MaxRest)}

Files == ReplayFiles \cup TokFiles \cup SpecialFiles \cup HeadFiles \cup {<<>>}

Fills == {170, 187}
\* Length of a last chunk that is shorter than a block.
PartLen == 100

FullBlock(f) == [fill |-> f, len |-> BLOCK_SIZE]

FullStreams ==
    {[i \in 1..Len(fs) |-> FullBlock(fs[i])] : fs \in SeqsUpTo(Fills, 0, MaxDat)}

\* Data streams: whole blocks, the last one possibly cut short.
Streams ==
    FullStreams
    \cup {[d EXCEPT ![Len(d)].len = PartLen] : d \in FullStreams \ {<<>>}}

(***************************************************************************)
(* State                                                                   *)
(***************************************************************************)
VARIABLES
    lines,          \* the transfer list file, line by line
    line_num,       \* TextFile::line_num: lines taken by getline so far
    version,        \* TransferList::version
    commands,       \* TransferList::commands in iteration order
    inserted,       \* the emplace calls of parse in the order they were made
    pc,             \* position in main
    dat,            \* the bytes behind input_dat
    in_pos,         \* chunks of dat consumed by input_dat
    in_fail,        \* failbit of input_dat
    out,            \* the blocks of the output file
    out_pos,        \* put position of output, in bytes
    out_fail,       \* failbit or badbit of output
    out_state,      \* "untouched", "open" or "closed"
    max_file_size,  \* main's max_file_size
    it              \* forEachCommand's position in commands

vars == <<lines, line_num, version, commands, inserted, pc, dat, in_pos,
          in_fail, out, out_pos, out_fail, out_state, max_file_size, it>>

parseVars == <<lines, line_num, version, commands, inserted>>
ioVars == <<dat, in_pos, in_fail, out, out_pos, out_fail, out_state,
            max_file_size, it>>

\* main before tlist.parse: nothing read, nothing decoded, streams closed.
Init ==
    /\ lines \in Files
    /\ line_num = 0
    /\ version = 0
    /\ commands = <<>>
    /\ inserted = <<>>
    /\ pc = "version"
    /\ dat = <<>>
    /\ in_pos = 0
    /\ in_fail = FALSE
    /\ out = <<>>
    /\ out_pos = 0
    /\ out_fail = FALSE
    /\ out_state = "untouched"
    /\ max_file_size = 0
    /\ it = 0

(***************************************************************************)
(* TransferList::parse                                                     *)
(***************************************************************************)
\* TextFile::ignoreLine called n times: a line is counted only if getline
\* gets one.
RECURSIVE ignoreLine(_, _, _)
ignoreLine(n, num, total) ==
    IF n = 0 THEN num
    ELSE ignoreLine(n - 1, IF num < total THEN num + 1 ELSE num, total)

\* What the switch on version does.
VersionKnown(v) == v \in {1, 2, 3, 4}

\* The first line: takeOneLine(&version) and the switch.
ParseVersion ==
    /\ pc = "version"
    /\ IF line_num >= Len(lines)
       THEN /\ pc' = "failed"
            /\ UNCHANGED <<line_num, version>>
       ELSE LET r == ExtractInt(lines[line_num + 1])
            IN /\ line_num' = line_num + 1
               /\ version' = r.val
               /\ pc' = IF r.ok /\ VersionKnown(r.val) THEN "header"
                        ELSE "failed"
    /\ UNCHANGED <<lines, commands, inserted>>
    /\ UNCHANGED ioVars

\* HeaderSkip with the two extra lines skipped from version 3 on only.
HeaderSkip_From3(v) == IF v > 2 THEN 3 ELSE 1

\* Number of ignoreLine calls after the version line.
HeaderSkip(v) == IF v >= 2 THEN 3 ELSE 1

\* ignoreLine(), and ignoreLine<2>() if version >= 2.
SkipHeader ==
    /\ pc = "header"
    /\ line_num' = ignoreLine(HeaderSkip(version), line_num, Len(lines))
    /\ pc' = "lines"
    /\ UNCHANGED <<lines, version, commands, inserted>>
    /\ UNCHANGED ioVars

\* One turn of the while loop on a command line.  result is "ok" with
\* the ranges to add, "failed" for an exception, "ub" for the read of
\* ret[0] in an empty vector.
ParseCommand(line) ==
    LET split_line == split(line, " ")
    IN IF Len(split_line) # 2
       THEN [result |-> "failed", cmd |-> "invalid", nums |-> <<>>]
       ELSE LET r == parseRanges(split_line[2])
                command == toOperations(split_line[1])
            IN IF r.kind = "ub"
               THEN [result |-> "ub", cmd |-> "invalid", nums |-> <<>>]
               ELSE IF r.kind = "throw" \/ r.nums = <<>>
                       \/ command = "invalid"
               THEN [result |-> "failed", cmd |-> "invalid", nums |-> <<>>]
               ELSE [result |-> "ok", cmd |-> command, nums |-> r.nums]

\* The emplace calls a line makes, in order.
RECURSIVE Segments(_, _, _)
Segments(command, nums, i) ==
    IF i > Len(nums) THEN <<>>
    ELSE <<ByteSegments(command, nums[i], nums[i + 1])>>
         \o Segments(command, nums, i + 2)

\* takeOneLine(&line) got a line: split, parseRanges, toOperations and the
\* emplace loop.  An exception leaves parse and main returns EXIT_FAILURE.
\* After the out-of-bounds read of ret[0] the process either dies or goes
\* on with a value that fails the size or the parity test.
ParseLine ==
    /\ pc = "lines"
    /\ line_num < Len(lines)
    /\ line_num' = line_num + 1
    /\ LET p == ParseCommand(lines[line_num + 1])
       IN \/ /\ p.result = "ok"
             /\ commands' = EmplaceAll(commands, p.cmd, p.nums, 1)
             /\ inserted' = inserted \o Segments(p.cmd, p.nums, 1)
             /\ pc' = "lines"
          \/ /\ p.result \in {"failed", "ub"}
             /\ pc' = "failed"
             /\ UNCHANGED <<commands, inserted>>
          \/ /\ p.result = "ub"
             /\ pc' = "crashed"
             /\ UNCHANGED <<commands, inserted>>
    /\ UNCHANGED <<lines, version>>
    /\ UNCHANGED ioVars

\* takeOneLine(&line) finds the end of the file: parse returns.
ParseEnd ==
    /\ pc = "lines"
    /\ line_num >= Len(lines)
    /\ pc' = "parsed"
    /\ UNCHANGED parseVars
    /\ UNCHANGED ioVars

(***************************************************************************)
(* main after a successful parse                                           *)
(***************************************************************************)
\* The output file exists and the answer to the prompt is not "y".
DeclineOverwrite ==
    /\ pc = "parsed"
    /\ pc' = "failed"
    /\ UNCHANGED parseVars
    /\ UNCHANGED ioVars

\* OpenFiles with the streams opened as soon as the header has been
\* skipped, while command lines are still being decoded.
OpenFiles_Early ==
    /\ pc \in {"lines", "parsed"}
    /\ \E d \in Streams : dat' = d
    /\ in_pos' = 0
    /\ in_fail' = FALSE
    /\ out' = <<>>
    /\ out_pos' = 0
    /\ out_fail' = FALSE
    /\ out_state' = "open"
    /\ pc' = "opened"
    /\ UNCHANGED parseVars
    /\ UNCHANGED <<max_file_size, it>>

\* std::ofstream output(output_img) creates or empties the output;
\* std::ifstream input_dat(new_dat_file) opens the data stream d.
OpenFiles ==
    /\ pc = "parsed"
    /\ \E d \in Streams : dat' = d
    /\ in_pos' = 0
    /\ in_fail' = FALSE
    /\ out' = <<>>
    /\ out_pos' = 0
    /\ out_fail' = FALSE
    /\ out_state' = "open"
    /\ pc' = "opened"
    /\ UNCHANGED parseVars
    /\ UNCHANGED <<max_file_size, it>>

\* Values that ->second.end() may yield when max_element returns end().
GarbageEnds == {0, 1, SizeMod - 1}

\* max_file_size = tlist.max() * BLOCK_SIZE in FileSizeT arithmetic.
MaxFileSize(max_block) == (max_block * BLOCK_SIZE) % SizeMod

\* FileSizeT max_file_size = tlist.max() * BLOCK_SIZE.  On an empty
\* collection max_element returns end() and the dereference is undefined:
\* the process dies or goes on with whatever the read yields.
ComputeMax ==
    /\ pc = "opened"
    /\ \/ /\ commands # <<>>
          /\ max_file_size' = MaxFileSize(max(commands))
          /\ pc' = "replay"
       \/ /\ commands = <<>>
          /\ \E g \in GarbageEnds : max_file_size' = MaxFileSize(g)
          /\ pc' = "replay"
       \/ /\ commands = <<>>
          /\ pc' = "crashed"
          /\ UNCHANGED max_file_size
    /\ it' = 1
    /\ UNCHANGED parseVars
    /\ UNCHANGED <<dat, in_pos, in_fail, out, out_pos, out_fail, out_state>>

IoState == [in_pos |-> in_pos, in_fail |-> in_fail, out |-> out,
            out_pos |-> out_pos, out_fail |-> out_fail]

\* Visit with Zero operations copied from the data stream like New ones.
Visit_ZeroCopies(seg, d, st) ==
    IF seg.cmd \in {New, Zero} THEN writeToFile(seg, d, st) ELSE st

\* The callback of forEachCommand: what one visit does to the streams.
Visit(seg, d, st) == IF seg.cmd = New THEN writeToFile(seg, d, st) ELSE st

\* forEachCommand hands the next element to the callback.
VisitCommand ==
    /\ pc = "replay"
    /\ it <= Len(commands)
    /\ LET st == Visit(commands[it], dat, IoState)
       IN /\ in_pos' = st.in_pos
          /\ in_fail' = st.in_fail
          /\ out' = st.out
          /\ out_pos' = st.out_pos
          /\ out_fail' = st.out_fail
    /\ it' = it + 1
    /\ UNCHANGED parseVars
    /\ UNCHANGED <<pc, dat, out_state, max_file_size>>

\* resize_file throws when the size does not fit the file offset type.
ResizeFits(new_size) == new_size <= OffMax

\* output.close(), input_dat.close() and resize_file.  The exception of
\* resize_file is not caught: the process terminates with the file as the
\* writes left it.
Finish ==
    /\ pc = "replay"
    /\ it > Len(commands)
    /\ out_state' = "closed"
    /\ IF ResizeFits(max_file_size)
       THEN /\ out' = resize_file(out, max_file_size)
            /\ pc' = "done"
       ELSE /\ out' = out
            /\ pc' = "aborted"
    /\ UNCHANGED parseVars
    /\ UNCHANGED <<dat, in_pos, in_fail, out_pos, out_fail, max_file_size, it>>

Next ==
    \/ ParseVersion
    \/ SkipHeader
    \/ ParseLine
    \/ ParseEnd
    \/ DeclineOverwrite
    \/ OpenFiles
    \/ ComputeMax
    \/ VisitCommand
    \/ Finish

Spec == Init /\ [][Next]_vars

TypeOK ==
    /\ pc \in {"version", "header", "lines", "parsed", "opened", "replay",
               "done", "failed", "crashed", "aborted"}
    /\ line_num \in 0..Len(lines)
    /\ \A i \in 1..Len(commands) :
          /\ commands[i].cmd \in {Erase, New, Zero}
          /\ commands[i].begin \in 0..(SizeMod - 1)
          /\ commands[i].end \in 0..(SizeMod - 1)
    /\ in_pos \in 0..Len(dat)
    /\ max_file_size \in 0..(SizeMod - 1)

(***************************************************************************)
(* Vocabulary of the properties                                            *)
(***************************************************************************)
\* The largest range end among the decoded operations ops (not empty).
LargestEnd(ops) ==
    CHOOSE m \in {ops[i].end : i \in 1..Len(ops)} :
        \A i \in 1..Len(ops) : ops[i].end <= m

\* The operations of kind k among ops, in the order of ops.
RECURSIVE OfKind(_, _)
OfKind(ops, k) ==
    IF ops = <<>> THEN <<>>
    ELSE (IF ops[1].cmd = k THEN <<ops[1]>> ELSE <<>>) \o OfKind(Tail(ops), k)

\* The New ranges in the order of the transfer list file.
NewInFileOrder == OfKind(inserted, New)

\* Blocks of the half-open interval [begin, end).
BlocksOf(r) == r.begin..(r.end - 1)

\* Number of blocks a range stands for, as ByteSegments::size reports it.
RangeSize(r) ==
    IF r.end >= r.begin THEN r.end - r.begin ELSE r.end - r.begin + SizeMod

RECURSIVE SumSizes(_, _)
SumSizes(ops, n) == IF n = 0 THEN 0 ELSE SumSizes(ops, n - 1) + RangeSize(ops[n])

(***************************************************************************)
(* C1                                                                      *)
(***************************************************************************)
\* C1: for every transfer list that decode accepts, once the replay has
\* finished the output is exactly 4096 * M bytes long, M being the largest
\* range end over all decoded operations of every kind.
C1_OutputLength ==
    (pc = "done" /\ inserted # <<>>)
        => Len(out) * BLOCK_SIZE = BLOCK_SIZE * LargestEnd(inserted)

(***************************************************************************)
(* C2                                                                      *)
(***************************************************************************)
\* Original images: a sequence of blocks, each all zero (0) or filled.
Images == SeqsUpTo({0} \cup Fills, 0, MaxImg)

ImageBlocks(img) == [i \in 1..Len(img) |-> Canon(FullBlock(img[i]))]

\* The blocks of img under the ranges rs, concatenated in the order of rs.
RECURSIVE StreamFor(_, _)
StreamFor(img, rs) ==
    IF rs = <<>> THEN <<>>
    ELSE [k \in 1..(rs[1].end - rs[1].begin) |->
             FullBlock(img[rs[1].begin + k])]
         \o StreamFor(img, Tail(rs))

\* The transfer list and the data stream were generated from img: the New
\* ranges are intervals of img, pairwise disjoint, they cover exactly the
\* blocks that are not all zero, and the stream holds those blocks in the
\* order of the New ranges.
GeneratedFrom(img) ==
    LET rs == NewInFileOrder
    IN /\ \A i \in 1..Len(rs) : rs[i].begin < rs[i].end /\ rs[i].end <= Len(img)
       /\ \A i, j \in 1..Len(rs) :
             i # j => BlocksOf(rs[i]) \cap BlocksOf(rs[j]) = {}
       /\ UNION {BlocksOf(rs[i]) : i \in 1..Len(rs)}
             = {b \in 0..(Len(img) - 1) : img[b + 1] # 0}
       /\ dat = StreamFor(img, rs)

\* C2 as stated: round trip.  Whenever the transfer list and the data
\* stream were generated from an original image, the reconstructed output
\* equals that image block for block.  (Stated for transfer lists with at
\* least one operation; the list without operations is the matter of C3.)
C2_RoundTripAsStated ==
    (pc = "done" /\ inserted # <<>>) =>
        \A img \in Images : GeneratedFrom(img) => out = ImageBlocks(img)

\* C2 amended: the same, for transfer lists whose largest range end over
\* all operations is the number of blocks of the original image.
C2_RoundTrip ==
    pc = "done" =>
        \A img \in Images :
            (/\ inserted # <<>>
             /\ LargestEnd(inserted) = Len(img)
             /\ GeneratedFrom(img))
                => out = ImageBlocks(img)

\* Two New ranges written against block order, with different contents.
C2_Witness ==
    /\ pc = "done"
    /\ \E img \in Images :
          /\ inserted # <<>>
          /\ LargestEnd(inserted) = Len(img)
          /\ GeneratedFrom(img)
          /\ Len(NewInFileOrder) = 2
          /\ NewInFileOrder[1].begin > NewInFileOrder[2].begin
          /\ out = ImageBlocks(img)
          /\ out[1] # out[3]
          /\ out[2] = ZeroBlock

(***************************************************************************)
(* C3                                                                      *)
(***************************************************************************)
\* C3: a transfer list that decodes to zero operations ends the run in a
\* fatal error; the maximum is never taken of an empty collection and no
\* output size is established.
C3_EmptyIsFatal ==
    (pc \in {"replay", "done", "aborted"}) => inserted # <<>>

(***************************************************************************)
(* C4                                                                      *)
(***************************************************************************)
CommandWords == {<<S_erase, Erase>>, <<S_new, New>>, <<S_zero, Zero>>}

DecAll(vals) == [i \in 1..Len(vals) |-> Dec(vals[i])]

\* Command lines "<word> N,v1,...,vm" with the numbers they were written
\* from: <<text, kind, N, <<v1, ..., vm>> >>.
RangeSpecLines ==
    {<<CmdLine(S_new, DecAll(vals)), New, vals[1], Tail(vals)>> :
        vals \in SeqsUpTo(NumVals, 1, MaxToks)}
    \cup {<<RangeLine(w[1], v), w[2], Len(v), v>> :
        w \in CommandWords, v \in NewVals \cup EraseVals \cup ZeroVals}

\* The ranges (v1,v2), (v3,v4), ... of kind k.
PairsOf(k, v) ==
    [i \in 1..(Len(v) \div 2) |->
        [cmd |-> k, begin |-> v[2 * i - 1], end |-> v[2 * i]]]

\* C4: on a command line with range-spec N,v1,...,vm the decode fails and
\* adds no range when m # N or N is odd; when m = N and N is even and
\* positive the line adds exactly the N/2 ranges (v1,v2), (v3,v4), ... in
\* that order, all of the line's kind.
C4_Rangeset ==
    [][(pc = "lines" /\ line_num < Len(lines)) =>
        \A e \in RangeSpecLines :
            e[1] = lines[line_num + 1] =>
                LET k == e[2]
                    N == e[3]
                    v == e[4]
                IN /\ (Len(v) # N \/ N % 2 = 1) =>
                        /\ pc' = "failed"
                        /\ commands' = commands
                        /\ inserted' = inserted
                   /\ (Len(v) = N /\ N % 2 = 0 /\ N > 0) =>
                        /\ pc' = "lines"
                        /\ inserted' = inserted \o PairsOf(k, v)
                        /\ OfKind(commands', k)
                              = OfKind(commands, k) \o PairsOf(k, v)
                        /\ \A o \in {Erase, New, Zero} \ {k} :
                              OfKind(commands', o) = OfKind(commands, o)
      ]_vars

\* A line with two pairs has been decoded after an earlier line.
C4_Witness ==
    /\ pc = "lines"
    /\ line_num > 0
    /\ \E e \in RangeSpecLines :
          /\ e[1] = lines[line_num]
          /\ e[3] = 4
          /\ Len(e[4]) = 4
          /\ Len(inserted) >= 3
          /\ SubSeq(inserted, Len(inserted) - 1, Len(inserted))
                = PairsOf(e[2], e[4])

(***************************************************************************)
(* C5                                                                      *)
(***************************************************************************)
\* Version lines with the number they were written from.
VersionTexts == {<<Dec(v), v>> : v \in 0..5} \cup {<<T_minus1, 0 - 1>>}

\* Number of lines before the first command line.
HeaderLines(v) == IF v = 1 THEN 2 ELSE 4

\* The well-formed command lines with the number of their ranges.
WellFormedLines ==
    {<<e[1], e[3] \div 2>> :
        e \in {x \in RangeSpecLines :
                  Len(x[4]) = x[3] /\ x[3] % 2 = 0 /\ x[3] > 0}}

\* Number of ranges the command line l stands for (0 if it is not a
\* well-formed one).
RangesOn(l) ==
    IF \E n \in 1..MaxToks : <<l, n>> \in WellFormedLines
    THEN CHOOSE n \in 1..MaxToks : <<l, n>> \in WellFormedLines
    ELSE 0

RECURSIVE RangesBetween(_, _)
RangesBetween(from, to) ==
    IF from > to THEN 0
    ELSE RangesOn(lines[to]) + RangesBetween(from, to - 1)

\* Every line after the version line is a header line or a well-formed
\* command line.
PlainFile ==
    \A i \in 2..Len(lines) : lines[i] = HeaderLine \/ RangesOn(lines[i]) > 0

\* C5: a version outside {1,2,3,4} fails the decode before any command
\* line is read; after version 1 one header line is skipped, after
\* versions 2, 3 and 4 three, so that the command lines are the lines from
\* line 3 (version 1) or line 5 (versions 2-4) on: the ranges decoded so
\* far are those of the lines from there up to the current line.
C5_VersionHeader ==
    \A t \in VersionTexts :
        (lines # <<>> /\ lines[1] = t[1] /\ pc # "version") =>
            IF t[2] \notin {1, 2, 3, 4}
            THEN pc = "failed" /\ line_num = 1 /\ inserted = <<>>
            ELSE /\ version = t[2]
                 /\ (pc \in {"lines", "parsed"} /\ PlainFile) =>
                       /\ line_num >= HeaderLines(t[2]) \/ line_num = Len(lines)
                       /\ Len(inserted)
                             = RangesBetween(HeaderLines(t[2]) + 1, line_num)

\* Version 2: the command on line 5 was decoded, the command-like lines 3
\* and 4 were skipped as header lines.
C5_Witness ==
    /\ lines # <<>> /\ lines[1] = Dec(2)
    /\ Len(lines) = 5 /\ lines[3] = GoodLine /\ lines[4] = GoodLine
    /\ pc = "parsed" /\ line_num = 5 /\ Len(inserted) = 1

(***************************************************************************)
(* C6                                                                      *)
(***************************************************************************)
\* C6: the visit of an Erase or Zero operation changes neither the read
\* position of the data stream nor the output; a transfer list without
\* New operations therefore consumes nothing of the data stream and ends
\* with an output of the computed size whose every byte is zero.
C6_SkipIsNoOp ==
    /\ [][(pc = "replay" /\ it <= Len(commands)
              /\ commands[it].cmd \in {Erase, Zero})
            => /\ in_pos' = in_pos
               /\ in_fail' = in_fail
               /\ out' = out
               /\ out_pos' = out_pos
               /\ out_fail' = out_fail]_vars
    /\ [](( /\ pc = "done"
            /\ inserted # <<>>
            /\ \A i \in 1..Len(inserted) : inserted[i].cmd \in {Erase, Zero})
            => /\ in_pos = 0
               /\ ~in_fail
               /\ Len(out) * BLOCK_SIZE = max_file_size
               /\ \A i \in 1..Len(out) :
                     \A k \in {0, PartLen, BLOCK_SIZE - 1} :
                        ByteAt(out[i], k) = 0)

\* An erase and a zero operation were replayed next to a data stream that
\* has data, and the output has blocks.
C6_Witness ==
    /\ pc = "done"
    /\ Len(inserted) = 2
    /\ inserted[1].cmd = Zero
    /\ inserted[2].cmd = Erase
    /\ dat # <<>>
    /\ in_pos = 0
    /\ Len(out) = 3

(***************************************************************************)
(* C7                                                                      *)
(***************************************************************************)
\* The decimal text of a non-negative integer: digits only, at least one.
IsDecimal(tok) == tok # <<>> /\ \A i \in 1..Len(tok) : IsDigit(tok[i])

\* "new" lines with a range-spec token that is not decimal text.
BadTokenLines ==
    {CmdLine(S_new, toks) :
        toks \in {ts \in SeqsUpTo(MixToks, 1, 3) :
                     \E i \in 1..Len(ts) : ~IsDecimal(ts[i])}}

\* C7: a range-spec token that is not the decimal text of a non-negative
\* integer fails the decode: once such a line has been read the run is
\* over with a failure.
C7_BadTokenFails ==
    \A i \in 1..line_num :
        (i > HeaderLines(4) /\ lines[i] \in BadTokenLines)
            => pc \in {"failed", "crashed"}

(***************************************************************************)
(* C8                                                                      *)
(***************************************************************************)
\* C8: every range of the operations collection satisfies end > begin.
C8_EndAfterBegin ==
    \A i \in 1..Len(commands) : commands[i].end > commands[i].begin

(***************************************************************************)
(* C9                                                                      *)
(***************************************************************************)
\* Number of whole blocks the data stream holds.
WholeChunks(d) == Cardinality({i \in 1..Len(d) : d[i].len = BLOCK_SIZE})

\* The New operation visited at position i of commands is the j-th New
\* operation of the replay.
NewsUpTo(i) == Len(OfKind(SubSeq(commands, 1, i), New))

\* The visits of New operations follow the order of the file.
VisitInFileOrder ==
    (pc = "replay" /\ it <= Len(commands) /\ commands[it].cmd = New)
        => commands[it] = NewInFileOrder[NewsUpTo(it)]

\* C9: New operations are visited in the order in which their ranges
\* appear in the file; hence, with a data stream that is long enough, the
\* j-th New range of the file receives the stream blocks that start at the
\* sum of the sizes of the New ranges before it, and they are written at
\* output offset begin * 4096, i.e. to the blocks begin, begin + 1, ...
\* (stated for the visits whose writes the output stream accepts).
C9_NewInFileOrder ==
    [][(pc = "replay" /\ it <= Len(commands) /\ commands[it].cmd = New) =>
        LET rs == NewInFileOrder
            j == NewsUpTo(it)
            start == SumSizes(rs, j - 1)
        IN /\ commands[it] = rs[j]
           /\ (SumSizes(rs, Len(rs)) <= WholeChunks(dat) /\ ~out_fail') =>
                 /\ in_pos = start
                 /\ \A k \in 0..(RangeSize(rs[j]) - 1) :
                       /\ Len(out') >= rs[j].begin + k + 1
                       /\ out'[rs[j].begin + k + 1] = dat[start + k + 1]
      ]_vars

(***************************************************************************)
(* C10                                                                     *)
(***************************************************************************)
\* Byte b of the block that the k-th read of a visit delivers, the stream
\* being at chunk p: the byte of the stream if there is one, else zero.
StreamByte(p, b) ==
    IF ~in_fail /\ p < Len(dat) /\ b < dat[p + 1].len
    THEN dat[p + 1].fill
    ELSE 0

\* C10: when the data stream runs out during the visit of a New
\* operation (or ran out before it), the replay goes on without an error
\* and, as long as the output stream accepts the writes, range.size()
\* whole blocks are written: a block read in part keeps the bytes read,
\* followed by zero bytes, and every block after the end of the stream is
\* all zeros.
C10_ShortRead ==
    [][(/\ pc = "replay" /\ it <= Len(commands) /\ commands[it].cmd = New
        /\ in_fail' /\ ~out_fail') =>
        LET n == RangeSize(commands[it])
            first == (out_pos' - n * BLOCK_SIZE) \div BLOCK_SIZE
        IN /\ pc' = "replay"
           /\ out_pos' >= n * BLOCK_SIZE
           /\ \A k \in 0..(n - 1) :
                 /\ Len(out') >= first + k + 1
                 /\ \A b \in {0, PartLen - 1, PartLen, BLOCK_SIZE - 1} :
                       ByteAt(out'[first + k + 1], b)
                          = StreamByte(in_pos + k, b)
      ]_vars

\* A New range of two blocks was replayed from a stream that held less
\* than one block: a partly filled block, then a zero block.
C10_Witness ==
    /\ pc = "replay"
    /\ it = 2
    /\ commands[1] = [cmd |-> New, begin |-> 0, end |-> 2]
    /\ Len(dat) = 1
    /\ dat[1].len = PartLen
    /\ in_fail
    /\ ~out_fail
    /\ out = <<[fill |-> dat[1].fill, len |-> PartLen], ZeroBlock>>

(***************************************************************************)
(* C11                                                                     *)
(***************************************************************************)
\* Positions of main inside tlist.parse, and after a parse that returned.
Decoding == {"version", "header", "lines"}
Reconstructing == {"opened", "replay", "done", "aborted"}

\* Version lines that do not name one of the versions 1 to 4.
BadVersionLines ==
    {t[1] : t \in {x \in VersionTexts : x[2] \notin {1, 2, 3, 4}}}
    \cup {<<>>, T_x}

\* Command lines with no, one or three space-separated tokens.
WrongCountLines == {<<>>, S_new, GoodLine \o <<" ", "x">>}

\* Command lines whose rangeset has the wrong count or an odd count.
BadRangesetLines ==
    {e[1] : e \in {x \in RangeSpecLines : Len(x[4]) # x[3] \/ x[3] % 2 = 1}}

\* Command lines whose first token is none of erase, new, zero.
UnknownWordLines ==
    {RangeLine(w, <<0, 1>>) : w \in {<<"N", "e", "w">>, <<"m", "o", "v", "e">>}}

\* The data stream and the output as they are before main opens them.
NoIoYet ==
    /\ out_state = "untouched"
    /\ out = <<>>
    /\ out_pos = 0
    /\ in_pos = 0
    /\ ~in_fail
    /\ it = 0

\* C11: decode and reconstruction are two sequential phases.  While the
\* transfer list is being decoded nothing is read from the data stream and
\* the output is neither written nor resized; reconstruction starts only
\* after every line has been taken and decoded.  A bad version line, a
\* command line with a wrong token count, a bad rangeset or an unknown
\* command word ends the run with a failure; after a failed decode nothing
\* more happens: no operation is replayed, the output stays untouched.
C11_DecodeThenReplay ==
    /\ [][/\ (pc \in Decoding) =>
                /\ NoIoYet
                /\ NoIoYet'
                /\ pc' \in Decoding \cup {"parsed", "failed", "crashed"}
          /\ (pc' \in Reconstructing) =>
                /\ pc \in {"parsed"} \cup Reconstructing
                /\ line_num = Len(lines)
                /\ Len(lines) >= 1
                /\ inserted' = inserted
                /\ commands' = commands
          /\ (pc = "version" /\ lines # <<>> /\ lines[1] \in BadVersionLines)
                => pc' = "failed"
          /\ (/\ pc = "lines" /\ line_num < Len(lines)
              /\ lines[line_num + 1]
                    \in WrongCountLines \cup BadRangesetLines
                           \cup UnknownWordLines)
                => pc' = "failed" /\ commands' = commands
          /\ (pc \in Decoding /\ pc' \in {"failed", "crashed"}) => NoIoYet'
          /\ (pc \in {"failed", "crashed"}) => UNCHANGED vars
         ]_vars
    /\ [](pc = "failed" => NoIoYet)

\* The decode failed on an unknown command word after an earlier line had
\* been decoded: the run is over, the decoded operation was not replayed
\* and the output is untouched.
C11_Witness ==
    /\ pc = "failed"
    /\ line_num = HeaderLines(4) + 2
    /\ lines[line_num] \in UnknownWordLines
    /\ Len(inserted) = 1
    /\ commands = inserted
    /\ NoIoYet

====
